---------------------------- MODULE Spec2Model ----------------------------
(* State-machine model of archive/legacy-versions/server.py:               *)
(* TreasurerHandler (do_GET, do_POST), setup_database and run_server,      *)
(* together with the two resources they share: the uploads directory and   *)
(* the SQLite store ipupy_treasurer.db.                                    *)
EXTENDS Integers, Sequences, FiniteSets, TLC

\* ------------------------------------------------------------------ bounds
MaxBody == 1       \* longest request body, in bytes
MaxClock == 1      \* the wall clock runs over the seconds 0..MaxClock
MaxRequests == 2   \* requests handled over the whole run
MaxRows == 1       \* rows per table of the store

\* ------------------------------------------------------------- value sets
Byte == {0, 1}

Bodies == UNION {[1..n -> Byte] : n \in 0..MaxBody}

\* Request paths: the root, the default document, a document that does not
\* exist, the upload route, and for POST a path that only starts like it.
GetPaths == {"/", "/index.html", "/missing.html", "/api/upload"}

PostPaths == {"/api/upload", "/api/upload/x"}

DigitChars == {"0", "1", "2", "3", "4", "5", "6", "7", "8", "9"}

DigitVal(c) ==
    CASE c = "0" -> 0 [] c = "1" -> 1 [] c = "2" -> 2 [] c = "3" -> 3
      [] c = "4" -> 4 [] c = "5" -> 5 [] c = "6" -> 6 [] c = "7" -> 7
      [] c = "8" -> 8 [] c = "9" -> 9

DigitOf(n) == CHOOSE c \in DigitChars : DigitVal(c) = n

\* The decimal numeral of n >= 0, as a text.
RECURSIVE Numeral(_)
Numeral(n) == IF n < 10 THEN <<DigitOf(n)>> ELSE Numeral(n \div 10) \o <<DigitOf(n % 10)>>

\* self.headers of a request with this body: no Content-Length entry (<<>>),
\* or one text (<<t>>): a text that is no number, the body's length (also
\* with a leading zero), a length one too short.
HeadersFor(body) ==
    {<<>>, << <<"x">> >>, <<Numeral(Len(body))>>, << <<"0">> \o Numeral(Len(body)) >>}
    \cup (IF Len(body) > 0 THEN {<<Numeral(Len(body) - 1)>>} ELSE {})

\* The POST requests a client may send.
PostRequests ==
    {rq \in [path : PostPaths, body : Bodies,
             hdr : UNION {HeadersFor(b) : b \in Bodies}] : rq.hdr \in HeadersFor(rq.body)}

\* --------------------------------------------------------- pure functions
\* int(text) for a text of decimal digits.
RECURSIVE DigitsValue(_)
DigitsValue(t) ==
    IF t = <<>> THEN 0
    ELSE 10 * DigitsValue(SubSeq(t, 1, Len(t) - 1)) + DigitVal(t[Len(t)])

IsNumeral(t) == Len(t) > 0 /\ \A i \in 1..Len(t) : t[i] \in DigitChars

\* The exception int(self.headers['Content-Length']) raises, or "none".
IntError(hdr) ==
    IF hdr = <<>> THEN "TypeError"
    ELSE IF ~IsNumeral(hdr[1]) THEN "ValueError"
    ELSE "none"

ParseInt(hdr) == DigitsValue(hdr[1])

Min(a, b) == IF a <= b THEN a ELSE b

\* A read that stops one byte early.
RfileReadShort(stream, n) == SubSeq(stream, 1, Min(n, Len(stream)) - 1)

\* self.rfile.read(n): the first n bytes of what the client sent.
RfileRead(stream, n) == SubSeq(stream, 1, Min(n, Len(stream)))

\* datetime.now().strftime("%Y%m%d_%H%M%S") of second t: day, hour, minute,
\* second.
Strftime(t) == <<t \div 86400, (t \div 3600) % 24, (t \div 60) % 60, t % 60>>

\* uploads_dir / f"informe_{timestamp}.jpg"
FilePath(ts) == <<"uploads", "informe", ts, "jpg">>

\* A write in mode 'ab': the bytes are added to what the file holds.
WriteAppend(fs, p, data, k) ==
    [q \in DOMAIN fs \cup {p} |->
        IF q = p THEN (IF p \in DOMAIN fs THEN fs[p] ELSE <<>>) \o SubSeq(data, 1, k)
        ELSE fs[q]]

\* A write into a directory that is emptied first.
WriteRecreate(fs, p, data, k) == [q \in {p} |-> SubSeq(data, 1, k)]

\* open(path, 'wb') then f.write(data), of which the first k bytes reach the
\* file: the file is created or truncated, every other file is kept.
WriteBinary(fs, p, data, k) ==
    [q \in DOMAIN fs \cup {p} |-> IF q = p THEN SubSeq(data, 1, k) ELSE fs[q]]

\* json.dumps({"status": "success", "file": str(file_path)})
JsonSuccess(p) == [status |-> "success", file |-> p]

\* A route test by prefix (self.path.startswith).
IsUploadRoutePrefix(path) == path \in {"/api/upload", "/api/upload/x"}

\* The route test of do_POST.
IsUploadRoute(path) == path = "/api/upload"

\* A do_GET without the substitution of the default document.
GetPathUnchanged(path) == path

\* The path do_GET hands to SimpleHTTPRequestHandler.do_GET.
GetPath(path) == IF path = "/" THEN "/index.html" ELSE path

\* The documents of the served directory.
Site == {"/index.html"}

\* SimpleHTTPRequestHandler.do_GET for a path: a directory path is answered
\* with its index.html, a document with itself, anything else with 404.
SimpleHTTPGet(path) ==
    IF path \in Site THEN [status |-> 200, doc |-> <<path>>]
    ELSE IF path = "/" /\ "/index.html" \in Site
         THEN [status |-> 200, doc |-> <<"/index.html">>]
    ELSE [status |-> 404, doc |-> <<>>]

\* CREATE TABLE t, which raises when the table exists.
CreateTablePlain(d, t) ==
    IF t \in d.tables THEN [db |-> d, err |-> TRUE]
    ELSE [db |-> [d EXCEPT !.tables = @ \cup {t}], err |-> FALSE]

\* CREATE TABLE IF NOT EXISTS t: the store afterwards and whether the
\* statement raised.
CreateTableIfNotExists(d, t) ==
    [db |-> [d EXCEPT !.tables = @ \cup {t}], err |-> FALSE]


\* ------------------------------------------------------------------ state
VARIABLES
    pc,           \* position of the process in run_server
    listening,    \* the HTTPServer socket is bound and listening
    setupResult,  \* outcome of setup_database in the current process
    db,           \* ipupy_treasurer.db: its tables and their rows
    foreignKeys,  \* PRAGMA foreign_keys of the connections to the store
    now,          \* the wall clock, in seconds
    uploadsDir,   \* "absent" or "dir": the directory uploads/
    files,        \* the files under uploads/: path -> content
    reqNo,        \* requests handled so far
    last          \* the last request handled, when, and what the client got

vars == <<pc, listening, setupResult, db, foreignKeys, now,
          uploadsDir, files, reqNo, last>>

procVars == <<pc, listening, setupResult>>

fsVars == <<uploadsDir, files>>

NoSetup == [result |-> "none", created |-> {}]

NoFiles == [q \in {} |-> <<>>]

NoRequest ==
    [method |-> "none", path |-> "", clen |-> <<>>, body |-> <<>>,
     raised |-> "none", status |-> 0, json |-> <<>>, doc |-> <<>>,
     delegated |-> <<>>, at |-> 0, prev |-> <<>>]

\* The body of a request as its Content-Length delimits it.
DeclaredBody(l) == SubSeq(l.body, 1, DigitsValue(l.clen[1]))

\* What a request remembers of the request before it: nothing, unless that
\* one was an upload answered 200, and then its second, its body and its file.
PrevUpload(l) ==
    IF l.method = "POST" /\ l.status = 200
    THEN <<[at |-> l.at, body |-> DeclaredBody(l), file |-> l.json[1].file]>>
    ELSE <<>>

EmptyStore == [tables |-> {}, churches |-> {}, reports |-> {}]

\* A store left by earlier runs and the administration: both tables, a church
\* and a report of that church.
PopulatedStore ==
    [tables |-> {"churches", "reports"}, churches |-> {1},
     reports |-> {[id |-> 1, church_id |-> 1]}]

InitProcess ==
    /\ pc = "off"
    /\ listening = FALSE
    /\ setupResult = NoSetup

InitFiles ==
    /\ now = 0
    /\ uploadsDir = "absent"
    /\ files = NoFiles
    /\ reqNo = 0
    /\ last = NoRequest

\* The server: the process has not started, no upload was ever made, and the
\* store is absent (sqlite3.connect creates it empty) or left by earlier runs.
\* PRAGMA foreign_keys is at the default of the stock SQLite build (off):
\* setup_database and the handlers never set it.
Init ==
    /\ InitProcess
    /\ InitFiles
    /\ db \in {EmptyStore, PopulatedStore}
    /\ foreignKeys = FALSE

\* The store and its writers: the store is absent, and the default of PRAGMA
\* foreign_keys is the one the SQLite library was built with
\* (SQLITE_DEFAULT_FOREIGN_KEYS).
InitStore ==
    /\ InitProcess
    /\ InitFiles
    /\ db = EmptyStore
    /\ foreignKeys \in BOOLEAN

\* ---------------------------------------------------------------- do_POST
\* The handler as a function of the request, the clock, the uploads directory
\* and the fault the filesystem answers with ("none", "mkdir", "open" or
\* "write", the latter after k bytes).  status 0: the handler raised before
\* send_response, the connection is closed without a response.
DoPost(path, hdr, body, t, dir, fs, fault, k) ==
    IF ~IsUploadRoute(path)
    THEN [raised |-> "none", status |-> 404, json |-> <<>>, dir |-> dir, files |-> fs]
    ELSE IF IntError(hdr) # "none"
    THEN [raised |-> IntError(hdr), status |-> 0, json |-> <<>>, dir |-> dir, files |-> fs]
    ELSE LET post_data == RfileRead(body, ParseInt(hdr))
             file_path == FilePath(Strftime(t))
         IN  IF fault = "mkdir"
             THEN [raised |-> "OSError:mkdir", status |-> 0, json |-> <<>>,
                   dir |-> dir, files |-> fs]
             ELSE IF fault = "open"
             THEN [raised |-> "OSError:open", status |-> 0, json |-> <<>>,
                   dir |-> "dir", files |-> fs]
             ELSE IF fault = "write"
             THEN [raised |-> "OSError:write", status |-> 0, json |-> <<>>,
                   dir |-> "dir",
                   files |-> WriteBinary(fs, file_path, post_data, Min(k, Len(post_data)))]
             ELSE [raised |-> "none", status |-> 200,
                   json |-> <<JsonSuccess(file_path)>>, dir |-> "dir",
                   files |-> WriteBinary(fs, file_path, post_data, Len(post_data))]

\* mkdir(exist_ok=True) cannot fail on a directory that exists.
Faults(dir) == {"none", "open", "write"} \cup (IF dir = "absent" THEN {"mkdir"} ELSE {})

\* The answers of the filesystem a request can meet: none when the handler
\* does not get as far as the filesystem, and a write fails after 0..n bytes
\* of the n it was given.
FsAnswers(path, hdr, body, dir) ==
    IF IsUploadRoute(path) /\ IntError(hdr) = "none"
    THEN {a \in Faults(dir) \X (0..Len(RfileRead(body, ParseInt(hdr)))) :
             a[1] = "write" \/ a[2] = 0}
    ELSE {<<"none", 0>>}

HandlePost ==
    /\ pc = "serving"
    /\ reqNo < MaxRequests
    /\ \E rq \in PostRequests :
       \E a \in FsAnswers(rq.path, rq.hdr, rq.body, uploadsDir) :
       \E r \in {DoPost(rq.path, rq.hdr, rq.body, now, uploadsDir, files, a[1], a[2])} :
              /\ uploadsDir' = r.dir
              /\ files' = r.files
              /\ last' = [method |-> "POST", path |-> rq.path, clen |-> rq.hdr,
                          body |-> rq.body, raised |-> r.raised, status |-> r.status,
                          json |-> r.json, doc |-> <<>>, delegated |-> <<>>,
                          at |-> now, prev |-> PrevUpload(last)]
    /\ reqNo' = reqNo + 1
    /\ UNCHANGED <<procVars, db, foreignKeys, now>>

\* ----------------------------------------------------------------- do_GET
DoGet(path) ==
    LET p == GetPath(path)
        r == SimpleHTTPGet(p)
    IN  [delegated |-> <<p>>, status |-> r.status, doc |-> r.doc]

HandleGet ==
    /\ pc = "serving"
    /\ reqNo < MaxRequests
    /\ \E path \in GetPaths :
       \E r \in {DoGet(path)} :
              last' = [method |-> "GET", path |-> path, clen |-> <<>>,
                       body |-> <<>>, raised |-> "none", status |-> r.status,
                       json |-> <<>>, doc |-> r.doc, delegated |-> r.delegated,
                       at |-> now, prev |-> PrevUpload(last)]
    /\ reqNo' = reqNo + 1
    /\ UNCHANGED <<procVars, db, foreignKeys, now, fsVars>>

\* ------------------------------------------------------------- run_server
\* python server.py: a new process enters run_server.
Start ==
    /\ pc \in {"off", "failed"}
    /\ pc' = "start"
    /\ setupResult' = NoSetup
    /\ listening' = FALSE
    /\ UNCHANGED <<db, foreignKeys, now, fsVars, reqNo, last>>

\* setup_database(): connect, two CREATE TABLE IF NOT EXISTS, commit.  An
\* exception (the store cannot be opened, or a statement raised) leaves
\* run_server and ends the process.  created: the tables this call created.
SetupOutcome(d, openable) ==
    IF ~openable THEN [db |-> d, result |-> "open_failed", created |-> {}]
    ELSE LET c == CreateTableIfNotExists(d, "churches")
             r == CreateTableIfNotExists(c.db, "reports")
         IN  IF c.err \/ r.err
             THEN [db |-> d, result |-> "sql_error", created |-> {}]
             ELSE [db |-> r.db, result |-> "ok", created |-> r.db.tables \ d.tables]

\* A run_server that catches the exception of setup_database and goes on.
AfterSetupAlways(result) == "db_ready"

\* Where run_server is after setup_database(): at the next statement, or out
\* of run_server with the exception.
AfterSetup(result) == IF result = "ok" THEN "db_ready" ELSE "failed"

SetupDatabase ==
    /\ pc = "start"
    /\ \E openable \in BOOLEAN :
          LET s == SetupOutcome(db, openable)
          IN  /\ db' = s.db
              /\ setupResult' = [result |-> s.result, created |-> s.created]
              /\ pc' = AfterSetup(s.result)
    /\ UNCHANGED <<listening, foreignKeys, now, fsVars, reqNo, last>>

\* HTTPServer(server_address, TreasurerHandler): bind and listen, or OSError.
CreateServer ==
    /\ pc = "db_ready"
    /\ \E bindable \in BOOLEAN :
          IF bindable THEN pc' = "bound" /\ listening' = TRUE
          ELSE pc' = "failed" /\ listening' = FALSE
    /\ UNCHANGED <<setupResult, db, foreignKeys, now, fsVars, reqNo, last>>

\* The banner, webbrowser.open and the entry into httpd.serve_forever().
ServeForever ==
    /\ pc = "bound"
    /\ pc' = "serving"
    /\ UNCHANGED <<listening, setupResult, db, foreignKeys, now, fsVars,
                   reqNo, last>>

\* KeyboardInterrupt: serve_forever returns, httpd.shutdown(), the process
\* ends: its socket is closed and no request of it is left to observe.
Interrupt ==
    /\ pc = "serving"
    /\ pc' = "off"
    /\ listening' = FALSE
    /\ last' = NoRequest
    /\ UNCHANGED <<setupResult, db, foreignKeys, now, fsVars, reqNo>>

\* ------------------------------------------------------------ environment
\* A second passes (datetime.now()).
Tick ==
    /\ now < MaxClock
    /\ now' = now + 1
    /\ UNCHANGED <<procVars, db, foreignKeys, fsVars, reqNo, last>>

\* INSERT INTO churches: the administrative action outside this program.
\* AUTOINCREMENT assigns the next id; no row is ever deleted.
InsertChurch ==
    /\ "churches" \in db.tables
    /\ Cardinality(db.churches) < MaxRows
    /\ db' = [db EXCEPT !.churches = @ \cup {Cardinality(@) + 1}]
    /\ UNCHANGED <<procVars, foreignKeys, now, fsVars, reqNo, last>>

\* INSERT INTO reports with a church_id: with foreign_keys off the clause
\* FOREIGN KEY (church_id) REFERENCES churches (id) is parsed, not enforced.
InsertReport ==
    /\ "reports" \in db.tables
    /\ Cardinality(db.reports) < MaxRows
    /\ \E cid \in 1..(MaxRows + 1) :
          /\ foreignKeys => cid \in db.churches
          /\ db' = [db EXCEPT !.reports =
                        @ \cup {[id |-> Cardinality(@) + 1, church_id |-> cid]}]
    /\ UNCHANGED <<procVars, foreignKeys, now, fsVars, reqNo, last>>

\* The server program: run_server and the two handlers.
Next ==
    \/ Start
    \/ SetupDatabase
    \/ CreateServer
    \/ ServeForever
    \/ Interrupt
    \/ HandleGet
    \/ HandlePost
    \/ Tick

Spec == Init /\ [][Next]_vars

\* The store: setup_database at every start of the server, and the inserts
\* of the administration.
NextStore ==
    \/ Start
    \/ SetupDatabase
    \/ CreateServer
    \/ ServeForever
    \/ Interrupt
    \/ InsertChurch
    \/ InsertReport

SpecStore == InitStore /\ [][NextStore]_vars

\* ----------------------------------------------------------------- claims
UploadRoute == "/api/upload"

IsPost == last.method = "POST"

IsUpload == IsPost /\ last.path = UploadRoute

OSErrors == {"OSError:mkdir", "OSError:open", "OSError:write"}

\* The Content-Length header of the last request is a number, the number of
\* bytes of its body.
LengthMatches ==
    /\ last.clen # <<>>
    /\ IsNumeral(last.clen[1])
    /\ DigitsValue(last.clen[1]) = Len(last.body)

LengthMalformed == last.clen = <<>> \/ ~IsNumeral(last.clen[1])

\* The client got 200 and the JSON object {status: success, file: f}, f a
\* file under uploads/ that holds the request body.
UploadStored ==
    /\ last.status = 200
    /\ Len(last.json) = 1
    /\ last.json[1].status = "success"
    /\ last.json[1].file[1] = "uploads"
    /\ last.json[1].file \in DOMAIN files
    /\ files[last.json[1].file] = last.body

NotFoundEmpty == last.status = 404 /\ last.json = <<>> /\ last.doc = <<>>

\* C1, as stated: every POST to /api/upload whose Content-Length equals the
\* number of body bytes is answered 200 with {status: success, file: f},
\* where f is a file under uploads/ that holds exactly the request body.
C1_EveryUploadStored == IsUpload /\ LengthMatches => UploadStored

\* C1, amended: every POST to /api/upload whose Content-Length equals the
\* number of body bytes, and for which creating the directory, opening the
\* file and writing it do not fail, is answered 200 with {status: success,
\* file: f}, where f is a file under uploads/ that holds exactly the request
\* body.
C1_UploadStoredUnlessOSError ==
    IsUpload /\ LengthMatches /\ last.raised \notin OSErrors => UploadStored

C1_Witness ==
    /\ IsUpload /\ LengthMatches /\ UploadStored
    /\ Len(last.body) = MaxBody
    /\ Len(last.clen[1]) = 2

\* C2: a POST to any path other than /api/upload is answered 404 with an
\* empty body, whatever its headers and body.
C2_OtherPostNotFound == IsPost /\ last.path # UploadRoute => NotFoundEmpty

C2_Witness ==
    /\ IsPost /\ last.path = "/api/upload/x" /\ NotFoundEmpty
    /\ LengthMatches /\ Len(last.body) > 0

\* C3, as stated: a POST to /api/upload whose Content-Length is missing or
\* no integer is answered 404 with no body, and no file is written.
C3_MalformedLengthNotFound == IsUpload /\ LengthMalformed => NotFoundEmpty

\* C4, as stated: every report's church_id is the id of a row of churches.
C4_ReportsReferenceChurches == \A r \in db.reports : r.church_id \in db.churches

\* C5: a call of setup_database raises no error of its statements, keeps
\* every row and every table, and when it returns the tables are churches
\* and reports, whether or not they existed before.
C5_SetupIdempotent ==
    [][pc = "start" /\ pc' # "start" =>
          /\ setupResult'.result \in {"ok", "open_failed"}
          /\ db'.churches = db.churches
          /\ db'.reports = db.reports
          /\ db.tables \subseteq db'.tables
          /\ (setupResult'.result = "ok" => db'.tables = {"churches", "reports"})]_vars

C5_Witness ==
    /\ setupResult.result = "ok"
    /\ setupResult.created = {}
    /\ db.churches # {}
    /\ db.reports # {}

\* C6: when an upload answered 200 follows an upload answered 200 in the
\* same second, both were answered with the same file name, that file holds
\* the later body (the bytes its Content-Length delimits), and it is the only
\* file of that second: the earlier upload is in no file any more.
C6_SameSecondOverwrites ==
    IsPost /\ last.status = 200 /\ last.prev # <<>> /\ last.prev[1].at = last.at =>
        /\ last.raised = "none"
        /\ last.json[1].file = last.prev[1].file
        /\ last.json[1].file = FilePath(Strftime(last.at))
        /\ files[last.json[1].file] = DeclaredBody(last)
        /\ \A f \in DOMAIN files : f[3] = Strftime(last.at) => f = last.json[1].file

C6_Witness ==
    /\ IsPost /\ last.status = 200
    /\ last.prev # <<>>
    /\ last.prev[1].at = last.at
    /\ LengthMatches
    /\ last.prev[1].body # last.body
    /\ Len(last.prev[1].body) > 0
    /\ files[last.json[1].file] = last.body

\* C7: the socket listens only after setup_database has returned in this
\* process, and a process whose setup_database raised does not listen and
\* has left run_server.
C7_SchemaBeforeListening ==
    /\ listening => setupResult.result = "ok"
    /\ pc = "serving" => listening
    /\ pc \in {"db_ready", "bound", "serving"} => setupResult.result = "ok"
    /\ setupResult.result \in {"open_failed", "sql_error"} => ~listening /\ pc = "failed"

C7_Witness == setupResult.result = "open_failed" /\ pc = "failed" /\ ~listening

\* The step handles a request.
RequestStep == reqNo' # reqNo

\* The files the step creates, removes or changes.
ChangedFiles ==
    {f \in DOMAIN files \cup DOMAIN files' :
        \/ f \notin DOMAIN files
        \/ f \notin DOMAIN files'
        \/ files[f] # files'[f]}

\* C8, as stated: when creating the directory or writing the file fails, the
\* uploads directory is as it was before the request and no success response
\* is sent.
C8_FailureLeavesNoTrace ==
    [][RequestStep /\ last'.raised \in OSErrors =>
          /\ files' = files
          /\ uploadsDir' = uploadsDir
          /\ last'.status # 200]_vars

\* C8, amended: when creating the directory, opening the file or writing it
\* fails, no response is sent and every file other than the one named for
\* the request's second is as it was; that file may be left created,
\* truncated or partly written (holding a prefix of the body that was read),
\* and the directory may have been created.  A failure to create the
\* directory or to open the file changes no file.
C8_FailureTouchesOnlyTarget ==
    [][RequestStep /\ last'.raised \in OSErrors =>
          /\ last'.status = 0
          /\ last'.json = <<>>
          /\ ChangedFiles \subseteq {FilePath(Strftime(now))}
          /\ \A f \in ChangedFiles :
                /\ f \in DOMAIN files'
                /\ Len(files'[f]) <= Len(last'.body)
                /\ files'[f] = SubSeq(last'.body, 1, Len(files'[f]))
          /\ (last'.raised # "OSError:write" => ChangedFiles = {})
          /\ (last'.raised = "OSError:mkdir" => uploadsDir' = "absent")]_vars

C8_Witness ==
    /\ last.raised = "OSError:write"
    /\ last.prev # <<>>
    /\ last.prev[1].at = last.at
    /\ Len(last.prev[1].body) > 0
    /\ files[last.prev[1].file] = <<>>

\* C9: GET / is handed to the static file server as /index.html and gets the
\* response of GET /index.html; a GET of any other path is handed over with
\* its path unchanged.
C9_RootIsIndex ==
    last.method = "GET" =>
        /\ last.path = "/" =>
              /\ last.delegated = <<"/index.html">>
              /\ last.status = SimpleHTTPGet("/index.html").status
              /\ last.doc = SimpleHTTPGet("/index.html").doc
        /\ last.path # "/" =>
              /\ last.delegated = <<last.path>>
              /\ last.status = SimpleHTTPGet(last.path).status
              /\ last.doc = SimpleHTTPGet(last.path).doc

C9_Witness ==
    /\ last.method = "GET" /\ last.path = "/"
    /\ last.status = 200 /\ last.doc = <<"/index.html">>

\* C10: a request changes at most one file and no row or table of the
\* store; an upload answered 200 changes at most the file it names, which
\* exists afterwards; a GET, a POST answered 404 and a POST whose
\* Content-Length could not be read change no file.
C10_RequestFrame ==
    [][RequestStep =>
          /\ db' = db
          /\ Cardinality(ChangedFiles) <= 1
          /\ (last'.method = "POST" /\ last'.status = 200 =>
                 /\ ChangedFiles \subseteq {last'.json[1].file}
                 /\ last'.json[1].file \in DOMAIN files')
          /\ (last'.method = "GET" => ChangedFiles = {} /\ uploadsDir' = uploadsDir)
          /\ (last'.status = 404 => ChangedFiles = {} /\ uploadsDir' = uploadsDir)
          /\ (last'.raised \in {"TypeError", "ValueError"} =>
                 ChangedFiles = {} /\ uploadsDir' = uploadsDir)]_vars

C10_Witness ==
    /\ IsPost /\ last.status = 200
    /\ Cardinality(DOMAIN files) = 2
    /\ last.prev # <<>>
    /\ last.prev[1].file # last.json[1].file
    /\ files[last.prev[1].file] = last.prev[1].body
    /\ db.churches # {} /\ db.reports # {}

=============================================================================
